---------------------------- MODULE Spec2Model ----------------------------
(* Guruji chat: the browser session controller (src/script.js, class      *)
(* GurujiChat) and the completion relay (src/unnamed/part_000, the        *)
(* express server and its DeepSeekService), as one state machine.         *)
(*                                                                        *)
(* Texts are sequences of tokens.  A text the user types is a sequence of *)
(* characters (SP is a white-space character); each fixed phrase of the   *)
(* program is the one-token sequence naming it.  A JSON object is a       *)
(* record; a field that is undefined or null is a field the record does   *)
(* not have.                                                              *)
(*                                                                        *)
(* The page is taken to hold the elements the constructor looks up (the   *)
(* status indicator among them), so updateConnectionStatus always acts.   *)
(* A submit call may be made with any text in the input box, in any       *)
(* state: the listeners are called whatever the controls show.  An HTTP   *)
(* exchange with POST /api/chat is one entry of calls, carrying the       *)
(* route's own state for it; in its response stage, upstream records what *)
(* the upstream call came to.                                             *)
EXTENDS Naturals, Sequences, FiniteSets

VARIABLES
    isProcessing,       \* GurujiChat.isProcessing, the busy flag
    sendBtnDisabled,    \* sendBtn.disabled
    userInputDisabled,  \* userInput.disabled
    userInputValue,     \* userInput.value
    messageHistory,     \* GurujiChat.messageHistory
    chatWindow,         \* the bubbles appended to chatWindow, in order
    reconnectAttempts,  \* GurujiChat.reconnectAttempts
    statusClass,        \* the status the status indicator shows
    checkPc,            \* where the checkConnection chain stands
    initPc,             \* where init() stands
    calls,              \* the HTTP exchanges with POST /api/chat in progress
    pageOpen,           \* the page has not been unloaded
    endCalls            \* the exchanges with POST /api/conversation/end

vars == <<isProcessing, sendBtnDisabled, userInputDisabled, userInputValue,
          messageHistory, chatWindow, reconnectAttempts, statusClass,
          checkPc, initPc, calls, pageOpen, endCalls>>

clientVars == <<isProcessing, sendBtnDisabled, userInputDisabled,
                userInputValue, messageHistory, chatWindow>>

connVars == <<reconnectAttempts, statusClass, checkPc, initPc>>

endVars == <<pageOpen, endCalls>>

----------------------------------------------------------------------------
(* Bounds of the model.                                                   *)

\* A submission is taken up only while the history is shorter than this.
MaxHistory == 4

\* The same, in the specification of long sessions (LongSpec).
MaxLongHistory == 13

\* The longest message list a caller other than the page posts.
MaxMessages == 3

----------------------------------------------------------------------------
(* Program constants.                                                     *)

maxReconnectAttempts == 3

\* slice(-10) of sendToBackend
recentCount == 10

SP == " "

\* What the user may have in the input box when a submit call is made.
Texts == { <<>>, <<SP>>, <<"h">>, <<SP, "h", SP>> }

welcomeContent == <<"welcome">>

networkErrorMessage == <<"networkUnstable">>

\* handleAPIError's errorMessages
errorMessages ==
    << <<"clientFallback1">>, <<"clientFallback2">>,
       <<"clientFallback3">>, <<"clientFallback4">> >>

\* the chat route's fallbackResponses
fallbackResponses ==
    << <<"relayFallback1">>, <<"relayFallback2">>,
       <<"relayFallback3">>, <<"relayFallback4">> >>

personaContent == <<"persona">>

completionContent == <<"completion">>

\* The token generateSessionId gives the session.
sessionId == "guruji_1"

Message(role, content) == [role |-> role, content |-> content]

\* A null element of a posted messages array.
NullMessage == [null |-> TRUE]

----------------------------------------------------------------------------
(* Pure helpers of the client.                                            *)

RECURSIVE TrimStart(_)
TrimStart(s) ==
    IF s # <<>> /\ Head(s) = SP THEN TrimStart(Tail(s)) ELSE s

RECURSIVE TrimEnd(_)
TrimEnd(s) ==
    IF s # <<>> /\ s[Len(s)] = SP THEN TrimEnd(SubSeq(s, 1, Len(s) - 1)) ELSE s

\* String.prototype.trim
Trim(s) == TrimEnd(TrimStart(s))

\* Array.prototype.slice(-n)
SliceLast(s, n) ==
    IF Len(s) <= n THEN s ELSE SubSeq(s, Len(s) - n + 1, Len(s))

\* recentMessages taken from the front of the history, slice(0, 10).
recentMessagesFirst(history) ==
    IF Len(history) <= recentCount THEN history
    ELSE SubSeq(history, 1, recentCount)

\* sendToBackend's recentMessages
recentMessages(history) == SliceLast(history, recentCount)

\* The body of the request sendToBackend posts.
ChatRequestBody(history) ==
    [messages |-> [type |-> "array", items |-> recentMessages(history)]]

\* Accepts without its test of the message.
AcceptsBlank(message, processing) == ~processing

\* Accepts without its test of the busy flag.
AcceptsWhileBusy(message, processing) == message # <<>>

\* The guard of handleUserMessage: the call goes on.
Accepts(message, processing) == message # <<>> /\ ~processing

\* ShouldRetry with its ceiling one too high.
ShouldRetryOnceMore(attempts) == attempts <= maxReconnectAttempts + 1

\* checkConnection's catch: another probe is scheduled.
ShouldRetry(attempts) == attempts <= maxReconnectAttempts

RemoveAt(s, i) == SubSeq(s, 1, i - 1) \o SubSeq(s, i + 1, Len(s))

ClientCalls == { i \in DOMAIN calls : calls[i].from = "client" }

----------------------------------------------------------------------------
Init ==
    /\ isProcessing = FALSE
    /\ sendBtnDisabled = FALSE
    /\ userInputDisabled = FALSE
    /\ userInputValue = <<>>
    /\ messageHistory = <<>>
    /\ chatWindow = <<>>
    /\ reconnectAttempts = 0
    /\ statusClass = "connecting"
    /\ checkPc = "fetch"
    /\ initPc = "checkConnection"
    /\ calls = <<>>
    /\ pageOpen = TRUE
    /\ endCalls = <<>>

----------------------------------------------------------------------------
(* The session controller: connectivity.                                  *)

\* addWelcomeMessage, run by init() once its await of checkConnection ends.
\* InitContinues with the welcome message put at the head of the history.
InitContinuesAtHead ==
    IF initPc = "checkConnection"
    THEN /\ chatWindow' = Append(chatWindow, welcomeContent)
         /\ messageHistory' =
                <<Message("assistant", welcomeContent)>> \o messageHistory
         /\ initPc' = "done"
    ELSE UNCHANGED <<chatWindow, messageHistory, initPc>>


InitContinues ==
    IF initPc = "checkConnection"
    THEN /\ chatWindow' = Append(chatWindow, welcomeContent)
         /\ messageHistory' =
                Append(messageHistory, Message("assistant", welcomeContent))
         /\ initPc' = "done"
    ELSE UNCHANGED <<chatWindow, messageHistory, initPc>>

\* AfterProbe with the next probe scheduled after a healthy one too.
AfterProbePolling(outcome, attempts) ==
    IF outcome = "healthy" \/ ShouldRetry(attempts) THEN "timer" ELSE "done"

\* Where the checkConnection chain stands once a probe has settled, attempts
\* being the count after it: a timer is set in the retry branch alone.
AfterProbe(outcome, attempts) ==
    IF outcome # "healthy" /\ ShouldRetry(attempts) THEN "timer" ELSE "done"

\* The probe's fetch settles: checkConnection after its awaits.
ProbeSettles(outcome) ==
    /\ pageOpen
    /\ checkPc = "fetch"
    /\ IF outcome = "healthy"
       THEN /\ statusClass' = "connected"
            /\ reconnectAttempts' = 0
       ELSE /\ reconnectAttempts' = reconnectAttempts + 1
            /\ IF ShouldRetry(reconnectAttempts')
               THEN statusClass' = "connecting"
               ELSE statusClass' = "error"
    /\ checkPc' = AfterProbe(outcome, reconnectAttempts')
    /\ InitContinues
    /\ UNCHANGED <<isProcessing, sendBtnDisabled, userInputDisabled,
                   userInputValue, calls, endVars>>

\* The setTimeout callback: checkConnection again, up to its fetch.
RetryTimer ==
    /\ pageOpen
    /\ checkPc = "timer"
    /\ statusClass' = "connecting"
    /\ checkPc' = "fetch"
    /\ UNCHANGED <<clientVars, reconnectAttempts, initPc, calls, endVars>>


----------------------------------------------------------------------------
(* The session controller: one chat submission.                           *)

\* response.ok of fetch
ResponseOk(status) == status >= 200 /\ status <= 299

\* A field of a JSON object that is present and not the empty text.
Truthy(data, f) == f \in DOMAIN data /\ data[f] # <<>>

\* handleUserMessage up to its await: the input box holds text when the call
\* is made; cap bounds the history of the model.
handleUserMessage(text, cap) ==
    LET message == Trim(text) IN
    IF Accepts(message, isProcessing)
    THEN /\ Len(messageHistory) < cap
         /\ isProcessing' = TRUE
         /\ sendBtnDisabled' = TRUE
         /\ userInputDisabled' = TRUE
         /\ chatWindow' = Append(chatWindow, message)
         /\ messageHistory' = Append(messageHistory, Message("user", message))
         /\ userInputValue' = <<>>
         /\ calls' = Append(calls, [from |-> "client", pc |-> "request",
                                    body |-> ChatRequestBody(messageHistory')])
         /\ UNCHANGED <<connVars, endVars>>
    ELSE /\ userInputValue' = text
         /\ UNCHANGED <<isProcessing, sendBtnDisabled, userInputDisabled,
                        messageHistory, chatWindow, calls, connVars,
                        endVars>>

\* The click listener of the send button.
ClickSend(text, cap) == pageOpen /\ handleUserMessage(text, cap)

\* The keypress listener of the input box, for the Enter key.
PressEnter(text, cap) ==
    /\ pageOpen
    /\ IF ~isProcessing
       THEN handleUserMessage(text, cap)
       ELSE /\ userInputValue' = text
            /\ UNCHANGED <<isProcessing, sendBtnDisabled, userInputDisabled,
                           messageHistory, chatWindow, calls, connVars,
                           endVars>>

\* sendToBackend after its awaits, for the relay's response resp:
\* what it returns, or that it throws.
sendToBackend(resp) ==
    IF ~ResponseOk(resp.status)
    THEN IF Truthy(resp.data, "fallback")
         THEN [threw |-> FALSE,
               data |-> [success |-> TRUE, content |-> resp.data.fallback]]
         ELSE [threw |-> TRUE]
    ELSE [threw |-> FALSE, data |-> resp.data]

\* handleAPIError: the texts it may show for the relay's answer.
handleAPIError(error) ==
    IF Truthy(error, "fallback")
    THEN {error.fallback}
    ELSE {errorMessages[k] : k \in DOMAIN errorMessages}

\* handleNetworkError: the text it shows.
handleNetworkError == networkErrorMessage

\* The texts handleUserMessage may show and append for the response resp.
\* A success without content makes addMessageToChat throw inside the try
\* (appendChild of no node), before anything is shown.
ShownFor(resp) ==
    LET r == sendToBackend(resp) IN
    IF r.threw THEN {handleNetworkError}
    ELSE IF "success" \in DOMAIN r.data /\ r.data.success
         THEN IF "content" \in DOMAIN r.data
              THEN {r.data.content}
              ELSE {handleNetworkError}
         ELSE handleAPIError(r.data)

\* Completes with a network error shown but not appended to the history.
CompletesUnrecorded(i, text) ==
    /\ chatWindow' = Append(chatWindow, text)
    /\ messageHistory' =
           IF text = networkErrorMessage THEN messageHistory
           ELSE Append(messageHistory, Message("assistant", text))
    /\ isProcessing' = FALSE
    /\ sendBtnDisabled' = FALSE
    /\ userInputDisabled' = FALSE
    /\ calls' = RemoveAt(calls, i)
    /\ UNCHANGED <<userInputValue, connVars, endVars>>

\* Completes with the input re-enabled at the end of the try, not in a
\* finally block: after the catch the controls stay disabled.
CompletesNoFinally(i, text) ==
    /\ chatWindow' = Append(chatWindow, text)
    /\ messageHistory' = Append(messageHistory, Message("assistant", text))
    /\ isProcessing' = (text = networkErrorMessage)
    /\ sendBtnDisabled' = (text = networkErrorMessage)
    /\ userInputDisabled' = (text = networkErrorMessage)
    /\ calls' = RemoveAt(calls, i)
    /\ UNCHANGED <<userInputValue, connVars, endVars>>

\* The tail shared by every way out of handleUserMessage's try: the text is
\* shown and appended, then the finally block runs.
Completes(i, text) ==
    /\ chatWindow' = Append(chatWindow, text)
    /\ messageHistory' = Append(messageHistory, Message("assistant", text))
    /\ isProcessing' = FALSE
    /\ sendBtnDisabled' = FALSE
    /\ userInputDisabled' = FALSE
    /\ calls' = RemoveAt(calls, i)
    /\ UNCHANGED <<userInputValue, connVars, endVars>>

\* The relay's response reaches the page: handleUserMessage after its await.
ChatSettles(i) ==
    /\ pageOpen
    /\ calls[i].from = "client"
    /\ calls[i].pc = "response"
    /\ \E text \in ShownFor(calls[i]) : Completes(i, text)

\* fetch('/api/chat') rejects (the relay is not reached, or the connection
\* drops before its answer arrives): handleUserMessage's catch.
ChatFetchFails(i) ==
    /\ pageOpen
    /\ calls[i].from = "client"
    /\ calls[i].pc # "response"
    /\ Completes(i, handleNetworkError)

----------------------------------------------------------------------------
(* The session controller: the page is unloaded.                          *)

\* logConversationEnd's test of the history.
ShouldLog(history) == Len(history) > 1

\* ConversationEndBody with the messages of a chat request.
ConversationEndBodyRecent(history) ==
    [messages |-> [type |-> "array", items |-> recentMessages(history)],
     sessionId |-> sessionId]

\* The body logConversationEnd posts.
ConversationEndBody(history) ==
    [messages |-> [type |-> "array", items |-> history],
     sessionId |-> sessionId]

\* The beforeunload listener: logConversationEnd up to its await; the page
\* is gone after it.
Unload ==
    /\ pageOpen
    /\ pageOpen' = FALSE
    /\ endCalls' =
           IF ShouldLog(messageHistory)
           THEN Append(endCalls,
                       [from |-> "client", pc |-> "request",
                        body |-> ConversationEndBody(messageHistory)])
           ELSE endCalls
    /\ UNCHANGED <<clientVars, connVars, calls>>

\* The keepalive fetch resolves: nothing follows logConversationEnd's await.
EndSettles(i) ==
    /\ endCalls[i].from = "client"
    /\ endCalls[i].pc = "response"
    /\ endCalls' = RemoveAt(endCalls, i)
    /\ UNCHANGED <<clientVars, connVars, calls, pageOpen>>

\* The keepalive fetch rejects: logConversationEnd's empty catch.
EndFetchFails(i) ==
    /\ endCalls[i].from = "client"
    /\ endCalls[i].pc = "request"
    /\ endCalls' = RemoveAt(endCalls, i)
    /\ UNCHANGED <<clientVars, connVars, calls, pageOpen>>

----------------------------------------------------------------------------
(* The completion relay: DeepSeekService.generateResponse.                *)

\* What the upstream call may come to.  A response carries its HTTP status
\* and, when 2xx, the shape of its body.
UpstreamOutcomes ==
    { [kind |-> "response", status |-> 200, body |-> b] :
          b \in {"completion", "nullContent", "emptyChoices", "noChoices",
                 "noMessage"} }
    \cup { [kind |-> "response", status |-> s] :
          s \in {400, 401, 429, 500, 503, 504} }
    \cup { [kind |-> "timeout"], [kind |-> "unreachable"] }

\* axios.post: it resolves with a 2xx response and rejects otherwise, with
\* error.response for an HTTP status and error.code for a transport failure.
AxiosPost(outcome) ==
    CASE outcome.kind = "response" /\ ResponseOk(outcome.status) ->
             [resolved |-> TRUE, body |-> outcome.body]
      [] outcome.kind = "response" ->
             [resolved |-> FALSE,
              error |-> [response |-> [status |-> outcome.status]]]
      [] outcome.kind = "timeout" ->
             [resolved |-> FALSE, error |-> [code |-> "ECONNABORTED"]]
      [] OTHER ->
             [resolved |-> FALSE, error |-> [code |-> "ECONNREFUSED"]]

\* TryResult reading the content through optional chaining, without the
\* check of the body's structure: a body without choices is a success
\* without content.
TryResultLenient(body) ==
    IF body = "completion"
    THEN [threw |-> FALSE,
          result |-> [success |-> TRUE, content |-> completionContent]]
    ELSE [threw |-> FALSE, result |-> [success |-> TRUE]]

\* The try block of generateResponse on a resolved call: the result it
\* returns, or the error it throws (an Error without response and code for
\* a body without choices, a TypeError for a choice without message).
TryResult(body) ==
    CASE body = "completion" ->
             [threw |-> FALSE,
              result |-> [success |-> TRUE, content |-> completionContent]]
      [] body = "nullContent" ->
             [threw |-> FALSE, result |-> [success |-> TRUE]]
      [] OTHER ->
             [threw |-> TRUE, error |-> [message |-> "invalid"]]

\* The switch of generateResponse's catch on error.response.status.
StatusCode(status) ==
    CASE status = 401 -> "INVALID_API_KEY"
      [] status = 429 -> "RATE_LIMITED"
      [] status = 503 -> "SERVICE_UNAVAILABLE"
      [] status = 504 -> "SERVICE_UNAVAILABLE"
      [] OTHER -> "API_ERROR"

\* CatchResult without its test of error.code.
CatchResultNoTimeout(error) ==
    IF "response" \in DOMAIN error
    THEN [success |-> FALSE, error |-> "api",
          code |-> StatusCode(error.response.status)]
    ELSE [success |-> FALSE, error |-> "network", code |-> "NETWORK_ERROR"]

\* generateResponse's catch block.
CatchResult(error) ==
    IF "response" \in DOMAIN error
    THEN [success |-> FALSE, error |-> "api",
          code |-> StatusCode(error.response.status)]
    ELSE IF "code" \in DOMAIN error /\ error.code = "ECONNABORTED"
         THEN [success |-> FALSE, error |-> "timeout", code |-> "TIMEOUT"]
         ELSE [success |-> FALSE, error |-> "network",
               code |-> "NETWORK_ERROR"]

generateResponse(outcome) ==
    LET r == AxiosPost(outcome) IN
    IF r.resolved
    THEN LET t == TryResult(r.body) IN
         IF t.threw THEN CatchResult(t.error) ELSE t.result
    ELSE CatchResult(r.error)

----------------------------------------------------------------------------
(* The completion relay: the route POST /api/chat.                        *)

IsNull(msg) == "role" \notin DOMAIN msg

\* messages.some(msg => msg.role === 'system'): it reads the elements in
\* order up to the first system message, and throws on a null element.
RECURSIVE hasSystemPrompt(_)
hasSystemPrompt(items) ==
    IF items = <<>> THEN "false"
    ELSE IF IsNull(Head(items)) THEN "throw"
    ELSE IF Head(items).role = "system" THEN "true"
    ELSE hasSystemPrompt(Tail(items))

personaMessage == Message("system", personaContent)

\* chatMessages with the persona message put first whatever the list holds.
chatMessagesAlways(items) == <<personaMessage>> \o items

\* chatMessages without the persona message.
chatMessagesNever(items) == items

\* The list the route hands to generateResponse.
chatMessages(items) ==
    IF hasSystemPrompt(items) = "true" THEN items
    ELSE <<personaMessage>> \o items

\* The route's validation: messages is there and is an array.
ValidRequest(body) == body.messages.type = "array"

Respond(call, status, data, outcome) ==
    [from |-> call.from, pc |-> "response", status |-> status, data |-> data,
     upstream |-> outcome]

NoUpstream == [kind |-> "none"]

\* The route up to its await of generateResponse.
RelayReceives(i) ==
    /\ calls[i].pc = "request"
    /\ LET body == calls[i].body IN
       calls' = [calls EXCEPT ![i] =
           IF ~ValidRequest(body)
           THEN Respond(@, 400, [success |-> FALSE, error |-> "invalid",
                                 code |-> "INVALID_REQUEST"], NoUpstream)
           ELSE IF hasSystemPrompt(body.messages.items) = "throw"
           THEN Respond(@, 500, [success |-> FALSE, error |-> "internal",
                                 code |-> "SERVER_ERROR"], NoUpstream)
           ELSE [from |-> @.from, pc |-> "upstream",
                 messages |-> body.messages.items,
                 chatMessages |-> chatMessages(body.messages.items)]]
    /\ UNCHANGED <<clientVars, connVars, endVars>>

\* ChatAnswer with a failure answered by res.json alone, without
\* res.status(503).
ChatAnswerPlainStatus(result, k) ==
    IF result.success
    THEN [status |-> 200,
          data |-> IF "content" \in DOMAIN result
                   THEN [success |-> TRUE, content |-> result.content]
                   ELSE [success |-> TRUE]]
    ELSE [status |-> 200,
          data |-> [success |-> FALSE, error |-> result.error,
                    code |-> result.code, fallback |-> fallbackResponses[k]]]

\* ChatAnswer with a failure answered without its fallback.
ChatAnswerBare(result, k) ==
    IF result.success
    THEN [status |-> 200,
          data |-> IF "content" \in DOMAIN result
                   THEN [success |-> TRUE, content |-> result.content]
                   ELSE [success |-> TRUE]]
    ELSE [status |-> 503,
          data |-> [success |-> FALSE, error |-> result.error,
                    code |-> result.code]]

\* The route's answer to generateResponse's result; k is the random index
\* into fallbackResponses.
ChatAnswer(result, k) ==
    IF result.success
    THEN [status |-> 200,
          data |-> IF "content" \in DOMAIN result
                   THEN [success |-> TRUE, content |-> result.content]
                   ELSE [success |-> TRUE]]
    ELSE [status |-> 503,
          data |-> [success |-> FALSE, error |-> result.error,
                    code |-> result.code, fallback |-> fallbackResponses[k]]]

\* The upstream call settles: generateResponse returns and the route answers.
UpstreamSettles(i, outcome, k) ==
    /\ calls[i].pc = "upstream"
    /\ LET a == ChatAnswer(generateResponse(outcome), k) IN
       calls' = [calls EXCEPT ![i] = Respond(@, a.status, a.data, outcome)]
    /\ UNCHANGED <<clientVars, connVars, endVars>>

\* The rate limiter before the route answers in its place.
RateLimited(i) ==
    /\ calls[i].pc = "request"
    /\ calls' = [calls EXCEPT ![i] =
           Respond(@, 429, [error |-> "tooMany",
                            code |-> "RATE_LIMIT_EXCEEDED"], NoUpstream)]
    /\ UNCHANGED <<clientVars, connVars, endVars>>

----------------------------------------------------------------------------
(* The completion relay: the route POST /api/conversation/end.            *)

\* conversationEndAnswer with the chat route's validation of messages.
conversationEndAnswerValidating(body) ==
    IF body.messages.type = "array"
    THEN [status |-> 200, data |-> [success |-> TRUE]]
    ELSE [status |-> 400,
          data |-> [success |-> FALSE, error |-> "invalid",
                    code |-> "INVALID_REQUEST"]]

\* The route's answer: it reads messages and sessionId for its log line
\* alone.
conversationEndAnswer(body) == [status |-> 200, data |-> [success |-> TRUE]]

\* The route, which has no await.
EndReceives(i) ==
    /\ endCalls[i].pc = "request"
    /\ LET a == conversationEndAnswer(endCalls[i].body) IN
       endCalls' = [endCalls EXCEPT ![i] =
           [from |-> @.from, pc |-> "response", status |-> a.status,
            data |-> a.data, body |-> @.body]]
    /\ UNCHANGED <<clientVars, connVars, calls, pageOpen>>

\* The rate limiter before the route answers in its place.
EndRateLimited(i) ==
    /\ endCalls[i].pc = "request"
    /\ endCalls' = [endCalls EXCEPT ![i] =
           [from |-> @.from, pc |-> "response", status |-> 429,
            data |-> [error |-> "tooMany", code |-> "RATE_LIMIT_EXCEEDED"],
            body |-> @.body]]
    /\ UNCHANGED <<clientVars, connVars, calls, pageOpen>>

----------------------------------------------------------------------------
(* A caller of the relay other than the page.                             *)

Roles == {"system", "user", "assistant"}

MessageItems == { Message(r, <<"h">>) : r \in Roles } \cup {NullMessage}

RECURSIVE SeqsUpTo(_, _)
SeqsUpTo(S, n) ==
    IF n = 0 THEN { <<>> }
    ELSE LET shorter == SeqsUpTo(S, n - 1) IN
         shorter \cup { Append(s, x) : s \in shorter, x \in S }

\* The bodies posted: without messages, with messages that is no array, and
\* with every message list up to MaxMessages.
RequestBodies ==
    { [messages |-> [type |-> t]] : t \in {"undefined", "string"} }
    \cup { [messages |-> [type |-> "array", items |-> m]] :
             m \in SeqsUpTo(MessageItems, MaxMessages) }

DirectPost(body) ==
    /\ calls = <<>>
    /\ endCalls = <<>>
    /\ calls' = <<[from |-> "direct", pc |-> "request", body |-> body]>>
    /\ UNCHANGED <<clientVars, connVars, endVars>>

DirectReceives(i) ==
    /\ calls[i].from = "direct"
    /\ calls[i].pc = "response"
    /\ calls' = RemoveAt(calls, i)
    /\ UNCHANGED <<clientVars, connVars, endVars>>

\* The bodies posted to the end route: messages absent, no array, or a list
\* up to MaxMessages, each with and without a session id.
EndBodies ==
    RequestBodies
    \cup { [messages |-> b.messages, sessionId |-> sessionId] :
             b \in RequestBodies }

DirectEndPost(body) ==
    /\ calls = <<>>
    /\ endCalls = <<>>
    /\ endCalls' = <<[from |-> "direct", pc |-> "request", body |-> body]>>
    /\ UNCHANGED <<clientVars, connVars, calls, pageOpen>>

DirectEndReceives(i) ==
    /\ endCalls[i].from = "direct"
    /\ endCalls[i].pc = "response"
    /\ endCalls' = RemoveAt(endCalls, i)
    /\ UNCHANGED <<clientVars, connVars, calls, pageOpen>>


----------------------------------------------------------------------------
(* Specifications.                                                        *)

FallbackIndex == DOMAIN fallbackResponses

ProbeOutcomes == {"healthy", "unhealthy", "unreachable"}

\* The page and the relay.
Next ==
    \/ \E o \in ProbeOutcomes : ProbeSettles(o)
    \/ RetryTimer
    \/ \E t \in Texts : ClickSend(t, MaxHistory)
    \/ \E t \in Texts : PressEnter(t, MaxHistory)
    \/ \E i \in DOMAIN calls : ChatSettles(i)
    \/ \E i \in DOMAIN calls : ChatFetchFails(i)
    \/ \E i \in DOMAIN calls : RelayReceives(i)
    \/ \E i \in DOMAIN calls : RateLimited(i)
    \/ \E i \in DOMAIN calls, o \in UpstreamOutcomes, k \in FallbackIndex :
           UpstreamSettles(i, o, k)
    \/ Unload
    \/ \E i \in DOMAIN endCalls : EndReceives(i)
    \/ \E i \in DOMAIN endCalls : EndRateLimited(i)
    \/ \E i \in DOMAIN endCalls : EndSettles(i)
    \/ \E i \in DOMAIN endCalls : EndFetchFails(i)

Spec == Init /\ [][Next]_vars

\* The relay alone, under every request body.
RelayNext ==
    \/ \E b \in RequestBodies : DirectPost(b)
    \/ \E i \in DOMAIN calls : RelayReceives(i)
    \/ \E i \in DOMAIN calls : RateLimited(i)
    \/ \E i \in DOMAIN calls, o \in UpstreamOutcomes, k \in FallbackIndex :
           UpstreamSettles(i, o, k)
    \/ \E i \in DOMAIN calls : DirectReceives(i)
    \/ \E b \in EndBodies : DirectEndPost(b)
    \/ \E i \in DOMAIN endCalls : EndReceives(i)
    \/ \E i \in DOMAIN endCalls : EndRateLimited(i)
    \/ \E i \in DOMAIN endCalls : DirectEndReceives(i)

RelaySpec == Init /\ [][RelayNext]_vars

\* Long sessions: the page and the relay with an upstream that completes.
LongOutcomes == { [kind |-> "response", status |-> 200, body |-> "completion"] }

LongNext ==
    \/ \E o \in ProbeOutcomes : ProbeSettles(o)
    \/ RetryTimer
    \/ \E t \in Texts : ClickSend(t, MaxLongHistory)
    \/ \E t \in Texts : PressEnter(t, MaxLongHistory)
    \/ \E i \in DOMAIN calls : ChatSettles(i)
    \/ \E i \in DOMAIN calls : ChatFetchFails(i)
    \/ \E i \in DOMAIN calls : RelayReceives(i)
    \/ \E i \in DOMAIN calls : RateLimited(i)
    \/ \E i \in DOMAIN calls, o \in LongOutcomes, k \in FallbackIndex :
           UpstreamSettles(i, o, k)
    \/ Unload
    \/ \E i \in DOMAIN endCalls : EndReceives(i)
    \/ \E i \in DOMAIN endCalls : EndRateLimited(i)
    \/ \E i \in DOMAIN endCalls : EndSettles(i)
    \/ \E i \in DOMAIN endCalls : EndFetchFails(i)

LongSpec == Init /\ [][LongNext]_vars

\* The page and the relay, with the scheduling the browser gives the
\* connectivity chain: a probe's fetch settles and a set timer fires.
FairSpec ==
    /\ Spec
    /\ WF_vars(\E o \in ProbeOutcomes : ProbeSettles(o))
    /\ WF_vars(RetryTimer)

----------------------------------------------------------------------------
(* Properties.                                                            *)

Min(a, b) == IF a <= b THEN a ELSE b

CountRole(list, role) ==
    Cardinality({ j \in DOMAIN list :
                    "role" \in DOMAIN list[j] /\ list[j].role = role })

UpstreamCalls == { i \in DOMAIN calls : calls[i].pc = "upstream" }

Responses == { i \in DOMAIN calls : calls[i].pc = "response" }

Failures ==
    { i \in Responses :
        "success" \in DOMAIN calls[i].data /\ ~calls[i].data.success }

\* C1: while a chat submission of the page is in flight, no step appends a
\* user Message or sends another request, whatever submit calls are made,
\* and at no moment is more than one chat request of the session outstanding.
C1_SingleFlight ==
    /\ [](Cardinality(ClientCalls) <= 1)
    /\ [][ClientCalls # {} =>
            /\ Len(calls') <= Len(calls)
            /\ CountRole(messageHistory', "user")
                   = CountRole(messageHistory, "user")]_vars

\* A submit call with text to send was made while the request was in flight
\* and did nothing but leave the text in the input box.
C1_Witness ==
    /\ Cardinality(ClientCalls) = 1
    /\ isProcessing
    /\ Trim(userInputValue) # <<>>
    /\ CountRole(messageHistory, "user") = 1

\* C2: the list handed to the upstream call is the request's messages as
\* they are when one of them has role system, and otherwise one persona
\* system message followed by the request's messages in their order.
C2_UpstreamList ==
    \A i \in UpstreamCalls :
        LET m == calls[i].messages
            sent == calls[i].chatMessages IN
        IF \E j \in DOMAIN m : "role" \in DOMAIN m[j] /\ m[j].role = "system"
        THEN sent = m
        ELSE /\ Len(sent) = Len(m) + 1
             /\ sent[1] = [role |-> "system", content |-> <<"persona">>]
             /\ \A j \in DOMAIN m : sent[j + 1] = m[j]

\* A list of two messages without a system message went upstream behind the
\* persona message.
C2_Witness ==
    \E i \in UpstreamCalls :
        /\ Len(calls[i].messages) = 2
        /\ CountRole(calls[i].messages, "system") = 0
        /\ Len(calls[i].chatMessages) = 3

\* C3, as claimed: every list sent upstream holds exactly one system message,
\* and it is the first element.
C3_OneLeadingSystem ==
    \A i \in UpstreamCalls :
        /\ CountRole(calls[i].chatMessages, "system") = 1
        /\ calls[i].chatMessages[1].role = "system"

\* C3, amended: every list sent upstream holds at least one system message;
\* when the caller's list holds none it holds exactly one, the persona
\* message, first; a caller's list that holds system messages goes upstream
\* with exactly those, wherever they stand.
C3_SomeSystem ==
    \A i \in UpstreamCalls :
        LET m == calls[i].messages
            sent == calls[i].chatMessages IN
        /\ CountRole(sent, "system") >= 1
        /\ CountRole(m, "system") = 0 =>
               /\ CountRole(sent, "system") = 1
               /\ sent[1].role = "system"
        /\ CountRole(m, "system") > 0 =>
               CountRole(sent, "system") = CountRole(m, "system")

\* A list with two system messages, the first not leading, went upstream.
C3_Witness ==
    \E i \in UpstreamCalls :
        /\ CountRole(calls[i].chatMessages, "system") = 2
        /\ calls[i].chatMessages[1].role = "user"

UpstreamKinds ==
    {"INVALID_API_KEY", "RATE_LIMITED", "SERVICE_UNAVAILABLE", "API_ERROR",
     "TIMEOUT", "NETWORK_ERROR"}

\* C4, as claimed: every response of POST /chat with success false, whatever
\* its code, has a non-empty fallback.
C4_EveryFailureHasFallback ==
    \A i \in Failures :
        "fallback" \in DOMAIN calls[i].data /\ calls[i].data.fallback # <<>>

\* C4, amended: every response with success false that reports an upstream
\* failure kind has a non-empty fallback, one of the relay's phrases; the
\* INVALID_REQUEST and SERVER_ERROR responses carry no fallback.
C4_UpstreamFailureHasFallback ==
    \A i \in Failures :
        LET d == calls[i].data IN
        /\ d.code \in UpstreamKinds \cup {"INVALID_REQUEST", "SERVER_ERROR"}
        /\ d.code \in UpstreamKinds =>
               /\ "fallback" \in DOMAIN d
               /\ d.fallback # <<>>
               /\ \E k \in 1..4 : d.fallback = fallbackResponses[k]
        /\ d.code \notin UpstreamKinds => "fallback" \notin DOMAIN d

\* The relay answered a timed-out upstream call, with a fallback.
C4_Witness ==
    \E i \in Failures :
        /\ calls[i].data.code = "TIMEOUT"
        /\ "fallback" \in DOMAIN calls[i].data

\* C5: the kind answered for a failed upstream call is fixed by what the
\* call came to: 401, 429, 503 and 504 have their kinds, every other error
\* status is API_ERROR, a timeout is TIMEOUT, any other transport failure
\* NETWORK_ERROR.
C5_ErrorKind ==
    \A i \in Responses :
        LET o == calls[i].upstream
            d == calls[i].data
            failed == \/ o.kind \in {"timeout", "unreachable"}
                      \/ o.kind = "response" /\ ~(o.status \in 200..299) IN
        failed =>
            /\ "success" \in DOMAIN d /\ ~d.success
            /\ d.code =
                 IF o.kind = "timeout" THEN "TIMEOUT"
                 ELSE IF o.kind = "unreachable" THEN "NETWORK_ERROR"
                 ELSE IF o.status = 401 THEN "INVALID_API_KEY"
                 ELSE IF o.status = 429 THEN "RATE_LIMITED"
                 ELSE IF o.status \in {503, 504} THEN "SERVICE_UNAVAILABLE"
                 ELSE "API_ERROR"

\* The relay answered a timed-out upstream call with TIMEOUT.
C5_Witness ==
    \E i \in Responses :
        /\ calls[i].upstream.kind = "timeout"
        /\ calls[i].data.code = "TIMEOUT"

\* C6: whenever the page sends a chat request, the request's messages are the
\* last min(10, n) entries of the history of length n at that moment, in
\* history order, so never more than 10, and the last one is the user
\* Message just appended.
C6_LastTen ==
    [][Len(calls') > Len(calls) =>
         LET items == calls'[Len(calls')].body.messages.items
             h == messageHistory'
             n == Len(messageHistory')
             size == Len(items) IN
         /\ calls'[Len(calls')].from = "client"
         /\ n = Len(messageHistory) + 1
         /\ size = Min(10, n)
         /\ size <= 10
         /\ \A j \in 1..size : items[j] = h[n - size + j]
         /\ items[size] = h[n]
         /\ h[n].role = "user"
         /\ h[n].content = chatWindow'[Len(chatWindow')]]_vars

\* A request with ten messages is on its way while the history holds twelve
\* or more.
C6_Witness ==
    \E i \in ClientCalls :
        /\ calls[i].pc = "request"
        /\ Len(calls[i].body.messages.items) = 10
        /\ Len(messageHistory) >= 12
        /\ messageHistory[Len(messageHistory)].role = "user"

\* The text a step appends to the history as its last Message.
LastContent(h) == h[Len(h)].content

\* A step in which the page handles the relay's response to call i.
Handles(i) ==
    /\ calls[i].from = "client"
    /\ calls[i].pc = "response"
    /\ calls' = RemoveAt(calls, i)
    /\ Len(messageHistory') = Len(messageHistory) + 1

ClientPhrases == { errorMessages[k] : k \in 1..4 }

\* C7, as claimed: when the page handles a response of the relay that is a
\* failure, it shows the response's fallback if it carries one and otherwise
\* one of the page's own fallback phrases; the network-failure message is
\* shown for no response of the relay, only when the relay was not reached.
C7_FailureSurfaces ==
    [][\A i \in DOMAIN calls :
         Handles(i) =>
           LET d == calls[i].data
               failure == \/ ~(calls[i].status \in 200..299)
                          \/ ~("success" \in DOMAIN d /\ d.success)
               shown == LastContent(messageHistory') IN
           /\ (failure /\ "fallback" \in DOMAIN d) => shown = d.fallback
           /\ (failure /\ "fallback" \notin DOMAIN d) =>
                  shown \in ClientPhrases
           /\ shown # <<"networkUnstable">>]_vars

AssistantReplies(h) ==
    Cardinality({ j \in DOMAIN h :
                    h[j].role = "assistant" /\ h[j].content # <<"welcome">> })

\* C8: a step that takes up a submission appends one user Message, the text
\* shown; a step that ends a request, with whatever outcome, appends one
\* assistant Message, the text shown; so the user Messages of the history
\* are as many as its assistant Messages other than the welcome, plus one
\* while a request is outstanding.
C8_OneReplyEach ==
    /\ [](CountRole(messageHistory, "user")
            = AssistantReplies(messageHistory) + Cardinality(ClientCalls))
    /\ [](ClientCalls # {} <=> isProcessing)
    /\ [][Len(calls') > Len(calls) =>
            /\ Len(messageHistory') = Len(messageHistory) + 1
            /\ messageHistory'[Len(messageHistory')].role = "user"
            /\ chatWindow' = Append(chatWindow, LastContent(messageHistory'))
            /\ \A j \in DOMAIN messageHistory :
                   messageHistory'[j] = messageHistory[j]]_vars
    /\ [][Len(calls') < Len(calls) =>
            /\ Len(messageHistory') = Len(messageHistory) + 1
            /\ messageHistory'[Len(messageHistory')].role = "assistant"
            /\ chatWindow' = Append(chatWindow, LastContent(messageHistory'))
            /\ \A j \in DOMAIN messageHistory :
                   messageHistory'[j] = messageHistory[j]]_vars

\* Requests have ended with a completion, with a fallback of the relay and
\* with the network message; each user Message has its reply.
C8_Witness ==
    /\ ~isProcessing
    /\ calls = <<>>
    /\ \E j \in DOMAIN messageHistory :
           messageHistory[j] = [role |-> "assistant",
                                content |-> <<"networkUnstable">>]
    /\ \E j \in DOMAIN messageHistory :
           messageHistory[j] = [role |-> "assistant",
                                content |-> <<"relayFallback2">>]
    /\ CountRole(messageHistory, "user") = 2

\* C9: no more than 3 probes are scheduled after failures; the error state
\* is entered on the failure after the third of them, with no probe pending
\* or scheduled; it is never left and no probe follows it; and when no probe
\* succeeds the error state is reached.
C9_RetryCeiling ==
    /\ [](checkPc = "timer" => reconnectAttempts \in 1..3)
    /\ [](statusClass = "error" => reconnectAttempts = 4 /\ checkPc = "done")
    /\ [][reconnectAttempts' \in {reconnectAttempts, reconnectAttempts + 1, 0}
          /\ (reconnectAttempts' = reconnectAttempts + 1 => checkPc = "fetch")
         ]_vars
    /\ [][statusClass = "error" =>
            statusClass' = "error" /\ checkPc' = "done"]_vars
    /\ ([](pageOpen /\ statusClass # "connected")
          => <>(statusClass = "error"))

\* The session is errored after four failed probes, a chat reply later.
C9_Witness ==
    /\ statusClass = "error"
    /\ reconnectAttempts = 4
    /\ checkPc = "done"
    /\ Len(messageHistory) >= 3

\* C10: once the status is connected it stays connected: no probe is pending
\* or scheduled then or later, whatever the chat requests come to.
C10_ConnectedStays ==
    /\ [](statusClass = "connected" => checkPc = "done")
    /\ [][statusClass = "connected" =>
            statusClass' = "connected" /\ checkPc' = "done"]_vars

\* The session is connected and its last chat request ended with the
\* network message.
C10_Witness ==
    /\ statusClass = "connected"
    /\ ~isProcessing
    /\ Len(messageHistory) >= 3
    /\ messageHistory[Len(messageHistory)]
           = [role |-> "assistant", content |-> <<"networkUnstable">>]

\* C11: a step that takes up a submission sets the busy flag and disables
\* the send button and the input box; a step that ends its request, with
\* whatever outcome, clears the flag and enables both; so the flag is set,
\* and the controls are disabled, exactly while a request is outstanding,
\* and a submission made after the end is taken up again.
C11_BusyWhileOutstanding ==
    /\ [](isProcessing <=> ClientCalls # {})
    /\ [](sendBtnDisabled = isProcessing /\ userInputDisabled = isProcessing)
    /\ [][Len(calls') > Len(calls) =>
            /\ ~isProcessing
            /\ isProcessing' /\ sendBtnDisabled' /\ userInputDisabled']_vars
    /\ [][Len(calls') < Len(calls) =>
            /\ isProcessing
            /\ ~isProcessing' /\ ~sendBtnDisabled' /\ ~userInputDisabled']_vars

\* A request ended with the network message and the next submission was
\* taken up: its request is outstanding and the controls are disabled.
C11_Witness ==
    /\ isProcessing /\ sendBtnDisabled /\ userInputDisabled
    /\ Cardinality(ClientCalls) = 1
    /\ CountRole(messageHistory, "user") = 2
    /\ \E j \in DOMAIN messageHistory :
           messageHistory[j] = [role |-> "assistant",
                                content |-> <<"networkUnstable">>]

\* The kinds a failure of POST /api/chat may report.
Taxonomy == UpstreamKinds \cup {"INVALID_REQUEST", "SERVER_ERROR"}

\* The answers of the chat route itself (the rate limiter's are not).
RouteResponses ==
    { i \in Responses :
        ~("code" \in DOMAIN calls[i].data
          /\ calls[i].data.code = "RATE_LIMIT_EXCEEDED") }

\* C12, as claimed: whatever the upstream call comes to (a completion, an
\* error status, a timeout, a connection failure, a 2xx with a malformed
\* body), the route's answer to a valid request is a well-formed
\* ChatResponse: success with content, or a failure with a code of the
\* fixed taxonomy.
C12_WellFormedAnswer ==
    \A i \in RouteResponses :
        LET d == calls[i].data IN
        /\ "success" \in DOMAIN d
        /\ d.success => "content" \in DOMAIN d
        /\ ~d.success => "code" \in DOMAIN d /\ d.code \in Taxonomy

\* A step in which the chat route takes up request i (not one in which the
\* rate limiter answers in its place).
RouteTakes(i) ==
    /\ calls[i].pc = "request"
    /\ Len(calls') = Len(calls)
    /\ calls'[i].pc # "request"
    /\ ~(calls'[i].pc = "response"
         /\ calls'[i].data.code = "RATE_LIMIT_EXCEEDED")

\* C13, as claimed: the route answers a request whose messages is absent or
\* no sequence with 400 and INVALID_REQUEST, without an upstream call, and
\* takes every request whose messages is a sequence to an upstream call.
C13_ValidationDecides ==
    [][\A i \in DOMAIN calls :
         RouteTakes(i) =>
           IF calls[i].body.messages.type = "array"
           THEN calls'[i].pc = "upstream"
           ELSE /\ calls'[i].pc = "response"
                /\ calls'[i].status = 400
                /\ calls'[i].data.code = "INVALID_REQUEST"
                /\ calls'[i].upstream.kind = "none"]_vars

\* A text of white space alone, the empty text included.
Blank(t) == \A k \in DOMAIN t : t[k] = " "

\* C14: a submit call made with empty or white-space text in the input box,
\* by the send button or by the Enter key and in whatever state, appends no
\* Message, shows nothing, sends no request and leaves the busy flag and
\* the controls as they are.
C14_BlankSubmitNoOp ==
    [][\A t \in Texts :
         (Blank(t) /\ (ClickSend(t, MaxHistory) \/ PressEnter(t, MaxHistory)))
         => UNCHANGED <<messageHistory, chatWindow, calls, isProcessing,
                        sendBtnDisabled, userInputDisabled>>]_vars

\* A submit call was made with a white-space text while nothing was in
\* flight: the text is still in the box, and no request is out.
C14_Witness ==
    /\ userInputValue = <<" ">>
    /\ ~isProcessing
    /\ calls = <<>>
    /\ Len(messageHistory) >= 1

\* C16: a response to POST /api/chat has status 200 exactly when its body
\* has success true; an upstream failure kind is answered with 503, an
\* invalid request with 400, an unexpected exception with 500; so the
\* status the page branches on is 2xx exactly when success is true.
C16_StatusMatchesSuccess ==
    \A i \in Responses :
        LET d == calls[i].data
            succeeded == "success" \in DOMAIN d /\ d.success IN
        /\ calls[i].status = 200 <=> succeeded
        /\ (calls[i].status \in 200..299) <=> succeeded
        /\ ~succeeded =>
             /\ d.code \in UpstreamKinds => calls[i].status = 503
             /\ d.code = "INVALID_REQUEST" => calls[i].status = 400
             /\ d.code = "SERVER_ERROR" => calls[i].status = 500

\* An upstream 504 was answered with 503 and SERVICE_UNAVAILABLE.
C16_Witness ==
    \E i \in Responses :
        /\ calls[i].upstream = [kind |-> "response", status |-> 504]
        /\ calls[i].status = 503
        /\ calls[i].data.code = "SERVICE_UNAVAILABLE"

\* C20: a 2xx upstream response whose body has no choices, or an empty list
\* of them, is not answered as a success: the answer is a failure of kind
\* NETWORK_ERROR with one of the relay's fallback phrases.
C20_NoChoicesIsNetworkError ==
    \A i \in Responses :
        LET o == calls[i].upstream
            d == calls[i].data IN
        (o.kind = "response" /\ o.status \in 200..299
           /\ o.body \in {"emptyChoices", "noChoices"}) =>
            /\ "success" \in DOMAIN d /\ ~d.success
            /\ calls[i].status # 200
            /\ d.code = "NETWORK_ERROR"
            /\ "fallback" \in DOMAIN d
            /\ \E k \in 1..4 : d.fallback = fallbackResponses[k]

\* An upstream 200 with an empty list of choices was answered NETWORK_ERROR.
C20_Witness ==
    \E i \in Responses :
        /\ calls[i].upstream
             = [kind |-> "response", status |-> 200, body |-> "emptyChoices"]
        /\ calls[i].data.code = "NETWORK_ERROR"

Welcomes(h) ==
    { j \in DOMAIN h :
        h[j] = [role |-> "assistant", content |-> <<"welcome">>] }

\* C19, as claimed: in every state with a non-empty history the welcome
\* Message is in it once and is its first entry, also when the user submits
\* before the first probe has settled.
C19_WelcomeFirst ==
    messageHistory # <<>> =>
        /\ Welcomes(messageHistory) = {1}
        /\ initPc = "done"

\* The answers of the end route itself (the rate limiter's are not).
EndRouteResponses ==
    { i \in DOMAIN endCalls :
        /\ endCalls[i].pc = "response"
        /\ ~("code" \in DOMAIN endCalls[i].data
             /\ endCalls[i].data.code = "RATE_LIMIT_EXCEEDED") }

\* C15: the route POST /api/conversation/end answers every body, with or
\* without messages and with or without a session id, with 200 and success
\* true, and the step in which it answers starts no upstream call and
\* changes nothing else.
C15_EndAlwaysSucceeds ==
    /\ [](\A i \in EndRouteResponses :
            /\ endCalls[i].status = 200
            /\ endCalls[i].data = [success |-> TRUE])
    /\ [][(\E i \in DOMAIN endCalls :
             /\ endCalls[i].pc = "request"
             /\ Len(endCalls') = Len(endCalls)
             /\ endCalls'[i].pc = "response")
          => UNCHANGED <<calls, clientVars, connVars, pageOpen>>]_vars

\* A body with neither a messages list nor a session id was answered 200.
C15_Witness ==
    \E i \in EndRouteResponses :
        /\ endCalls[i].body.messages.type = "undefined"
        /\ "sessionId" \notin DOMAIN endCalls[i].body
        /\ endCalls[i].status = 200

\* The unload step adds one request of the page, carrying the given
\* Messages and the session id.
SendsOnUnload(items) ==
    /\ Len(endCalls') = Len(endCalls) + 1
    /\ SubSeq(endCalls', 1, Len(endCalls)) = endCalls
    /\ LET r == endCalls'[Len(endCalls')]
       IN  /\ r.from = "client"
           /\ r.pc = "request"
           /\ r.body.messages = [type |-> "array", items |-> items]
           /\ r.body.sessionId = sessionId

\* A step in which the page unloads.
UnloadStep == pageOpen /\ ~pageOpen'

\* A step in which a transmission of the page ends, answered or failed.
EndTransmissionEnds ==
    /\ Len(endCalls') < Len(endCalls)
    /\ \E i \in DOMAIN endCalls : endCalls[i].from = "client"

\* C17 as stated: on unload the page transmits the whole history with the
\* session id, whatever the history holds at that moment, and the end of
\* the transmission changes no session state.
C17_UnloadSendsAll ==
    /\ [][UnloadStep => SendsOnUnload(messageHistory)]_vars
    /\ [][EndTransmissionEnds => UNCHANGED <<clientVars, connVars>>]_vars

\* C17: on unload the page transmits the whole history (every Message, not
\* the last ten) with the session id when the history holds more than one
\* Message, and transmits nothing when it holds one Message or none; the
\* unload itself and the end of the transmission, answered or failed,
\* change no session state.
C17_UnloadSendsLongHistory ==
    /\ [][UnloadStep =>
            /\ IF Len(messageHistory) > 1
               THEN SendsOnUnload(messageHistory)
               ELSE endCalls' = endCalls
            /\ UNCHANGED <<clientVars, connVars>>]_vars
    /\ [][EndTransmissionEnds => UNCHANGED <<clientVars, connVars>>]_vars

\* The page has unloaded and its transmission carries a history of more
\* than ten Messages, all of them.
C17_Witness ==
    /\ ~pageOpen
    /\ Len(messageHistory) > recentCount
    /\ \E i \in DOMAIN endCalls :
          /\ endCalls[i].from = "client"
          /\ endCalls[i].body.messages.items = messageHistory
          /\ endCalls[i].body.sessionId = sessionId

\* s is a prefix of t.
IsPrefix(s, t) ==
    /\ Len(s) <= Len(t)
    /\ \A i \in 1..Len(s) : t[i] = s[i]

\* C18: the session history is append-only: every step of every operation
\* (welcome, submit, chat outcome, probe, unload) leaves the history it
\* found as a prefix of the history it leaves, so the history of any state
\* is a prefix of the history of every later state.
C18_AppendOnly ==
    [][IsPrefix(messageHistory, messageHistory')]_vars

\* The page has unloaded holding a history that begins with a user Message,
\* followed by the welcome message and an assistant reply.
C18_Witness ==
    /\ ~pageOpen
    /\ Len(messageHistory) >= 3
    /\ messageHistory[1].role = "user"
    /\ messageHistory[2] = Message("assistant", welcomeContent)
    /\ \E i \in 3..Len(messageHistory) : messageHistory[i].role = "assistant"

=============================================================================
